---- MODULE Spec2Model ----
(***************************************************************************)
(* A model of the provider adaptation and streaming-normalisation layer    *)
(* of model_platform: src/api_clients.py (APIClient and its adapters),     *)
(* src/config.py (the cost / max-token lookup) and the chat endpoint of    *)
(* src/app.py.                                                             *)
(*                                                                         *)
(* Text is modelled as a sequence of atoms.  An atom is either one         *)
(* structural character ("[", "]", "{", "}", ",", ":", the double quote,   *)
(* one blank) or a run of other characters that the code never inspects    *)
(* one by one: a word such as "x", or a member name with its quotes and    *)
(* its colon, written "candidates:" for the characters "candidates":       *)
(* A chunk boundary inside such a run is not modelled: the code looks only *)
(* at braces, at the first non-blank character and at leading / trailing   *)
(* blanks of a buffer, and a run holds none of these.                      *)
(***************************************************************************)
EXTENDS Integers, Sequences, FiniteSets, TLC

LB == "["
RB == "]"
LC == "{"
RC == "}"
CM == ","
CL == ":"
QT == "\""
SP == " "

(***************************************************************************)
(* Python string helpers.                                                  *)
(***************************************************************************)
RECURSIVE LStrip(_)
LStrip(s) == IF s # <<>> /\ Head(s) = SP THEN LStrip(Tail(s)) ELSE s

RECURSIVE RStrip(_)
RStrip(s) ==
    IF s # <<>> /\ s[Len(s)] = SP THEN RStrip(SubSeq(s, 1, Len(s) - 1)) ELSE s

\* str.strip(): blanks removed at both ends
Strip(s) == RStrip(LStrip(s))

\* str.startswith(prefix)
StartsWith(s, p) == Len(s) >= Len(p) /\ SubSeq(s, 1, Len(p)) = p

\* s[n:] (n >= 0)
Drop(s, n) == SubSeq(s, n + 1, Len(s))

RECURSIVE Concat(_)
Concat(ss) == IF ss = <<>> THEN <<>> ELSE Head(ss) \o Concat(Tail(ss))

(***************************************************************************)
(* json.loads on the atom alphabet: objects, arrays, strings and numbers,  *)
(* blanks between tokens.  A value is a record [t, s, keys, items, n]:     *)
(*   t = "str": s is the content;  t = "arr": items are the elements;      *)
(*   t = "obj": keys[i] is the i-th member's name, items[i] its value;     *)
(*   t = "num": n is the number (a number is one atom of NumAtoms).        *)
(* A parse step returns [ok, pos, val]: pos is the index after the value.  *)
(***************************************************************************)
JStr(s) == [t |-> "str", s |-> s, keys |-> <<>>, items |-> <<>>, n |-> 0]
JArr(items) == [t |-> "arr", s |-> <<>>, keys |-> <<>>, items |-> items, n |-> 0]
JObj(keys, items) == [t |-> "obj", s |-> <<>>, keys |-> keys, items |-> items, n |-> 0]
JNum(n) == [t |-> "num", s |-> <<>>, keys |-> <<>>, items |-> <<>>, n |-> n]
\* the number literals of the modelled documents and their values
NumAtoms == {"0", "1000", "2000"}
NumVal(a) == CASE a = "0" -> 0 [] a = "1000" -> 1000 [] a = "2000" -> 2000

JFail == [ok |-> FALSE, pos |-> 0, val |-> JStr(<<>>)]

\* the member names of the modelled documents, each with its quotes and colon
KeyAtoms ==
    {"candidates:", "content:", "parts:", "text:", "modelVersion:",
     "usageMetadata:", "promptTokenCount:", "candidatesTokenCount:",
     "choices:", "message:", "delta:", "usage:", "prompt_tokens:",
     "completion_tokens:", "input_tokens:", "output_tokens:", "model:",
     "type:", "error:", "role:"}
KeyName(a) ==
    CASE a = "candidates:" -> "candidates"
      [] a = "content:" -> "content"
      [] a = "parts:" -> "parts"
      [] a = "text:" -> "text"
      [] a = "modelVersion:" -> "modelVersion"
      [] a = "usageMetadata:" -> "usageMetadata"
      [] a = "promptTokenCount:" -> "promptTokenCount"
      [] a = "candidatesTokenCount:" -> "candidatesTokenCount"
      [] a = "choices:" -> "choices"
      [] a = "message:" -> "message"
      [] a = "delta:" -> "delta"
      [] a = "usage:" -> "usage"
      [] a = "prompt_tokens:" -> "prompt_tokens"
      [] a = "completion_tokens:" -> "completion_tokens"
      [] a = "input_tokens:" -> "input_tokens"
      [] a = "output_tokens:" -> "output_tokens"
      [] a = "model:" -> "model"
      [] a = "type:" -> "type"
      [] a = "error:" -> "error"
      [] a = "role:" -> "role"
Key(k) == CHOOSE a \in KeyAtoms : KeyName(a) = k

RECURSIVE SkipWs(_, _)
SkipWs(s, i) == IF i <= Len(s) /\ s[i] = SP THEN SkipWs(s, i + 1) ELSE i

\* index of the double quote that closes a string whose content starts at i,
\* 0 when there is none; a member name met first closes the string with its
\* own opening quote and leaves a bare word behind it, which no JSON
\* document allows: 0 as well
RECURSIVE FindQuote(_, _)
FindQuote(s, i) ==
    IF i > Len(s) \/ s[i] \in KeyAtoms THEN 0
    ELSE IF s[i] = QT THEN i ELSE FindQuote(s, i + 1)

\* s[i] is an opening quote
ParseString(s, i) ==
    LET j == FindQuote(s, i + 1)
    IN  IF j = 0 THEN JFail
        ELSE [ok |-> TRUE, pos |-> j + 1, val |-> JStr(SubSeq(s, i + 1, j - 1))]

RECURSIVE ParseValue(_, _)
RECURSIVE ParseMembers(_, _, _, _)
RECURSIVE ParseItems(_, _, _)

ParseValue(s, i0) ==
    LET i == SkipWs(s, i0)
    IN  IF i > Len(s) THEN JFail
        ELSE IF s[i] = QT THEN ParseString(s, i)
        ELSE IF s[i] = LC THEN
            LET j == SkipWs(s, i + 1)
            IN  IF j <= Len(s) /\ s[j] = RC
                THEN [ok |-> TRUE, pos |-> j + 1, val |-> JObj(<<>>, <<>>)]
                ELSE ParseMembers(s, j, <<>>, <<>>)
        ELSE IF s[i] = LB THEN
            LET j == SkipWs(s, i + 1)
            IN  IF j <= Len(s) /\ s[j] = RB
                THEN [ok |-> TRUE, pos |-> j + 1, val |-> JArr(<<>>)]
                ELSE ParseItems(s, j, <<>>)
        ELSE IF s[i] \in NumAtoms
        THEN [ok |-> TRUE, pos |-> i + 1, val |-> JNum(NumVal(s[i]))]
        ELSE JFail

\* the members of an object from position i (a member name is expected
\* there: one atom of KeyAtoms, or a string and a colon)
ParseMembers(s, i, keys, items) ==
    IF i > Len(s) \/ (s[i] # QT /\ s[i] \notin KeyAtoms) THEN JFail
    ELSE LET k == IF s[i] \in KeyAtoms
                  THEN [ok |-> TRUE, pos |-> i + 1, val |-> JStr(<<KeyName(s[i])>>)]
                  ELSE ParseString(s, i)
         IN  IF ~k.ok THEN JFail
             ELSE LET c == IF s[i] \in KeyAtoms THEN i ELSE SkipWs(s, k.pos)
                  IN  IF s[i] \notin KeyAtoms /\ (c > Len(s) \/ s[c] # CL) THEN JFail
                      ELSE LET v == ParseValue(s, c + 1)
                           IN  IF ~v.ok THEN JFail
                               ELSE LET e == SkipWs(s, v.pos)
                                        ks == Append(keys, k.val.s)
                                        vs == Append(items, v.val)
                                    IN  IF e > Len(s) THEN JFail
                                        ELSE IF s[e] = RC
                                        THEN [ok |-> TRUE, pos |-> e + 1,
                                              val |-> JObj(ks, vs)]
                                        ELSE IF s[e] = CM
                                        THEN ParseMembers(s, SkipWs(s, e + 1), ks, vs)
                                        ELSE JFail

\* the elements of an array from position i (a value is expected there)
ParseItems(s, i, items) ==
    LET v == ParseValue(s, i)
    IN  IF ~v.ok THEN JFail
        ELSE LET e == SkipWs(s, v.pos)
                 vs == Append(items, v.val)
             IN  IF e > Len(s) THEN JFail
                 ELSE IF s[e] = RB
                 THEN [ok |-> TRUE, pos |-> e + 1, val |-> JArr(vs)]
                 ELSE IF s[e] = CM THEN ParseItems(s, e + 1, vs)
                 ELSE JFail

\* json.loads(text): ok = FALSE is json.JSONDecodeError (also on extra data)
JsonLoads(text) ==
    LET v == ParseValue(text, 1)
    IN  IF v.ok /\ SkipWs(text, v.pos) > Len(text) THEN v ELSE JFail

(***************************************************************************)
(* Python dict / truthiness helpers on parsed values.                      *)
(***************************************************************************)
\* key in d (d an object): the member exists
HasKey(d, k) == \E i \in 1..Len(d.keys) : d.keys[i] = <<k>>

\* d.get(k, default): with duplicate names the last member wins
DictGet(d, k, default) ==
    IF HasKey(d, k)
    THEN d.items[CHOOSE i \in 1..Len(d.keys) :
                    /\ d.keys[i] = <<k>>
                    /\ \A j \in (i + 1)..Len(d.keys) : d.keys[j] # <<k>>]
    ELSE default

\* bool(v)
Truthy(v) ==
    \/ v.t = "str" /\ v.s # <<>>
    \/ v.t = "arr" /\ v.items # <<>>
    \/ v.t = "obj" /\ v.keys # <<>>
    \/ v.t = "num" /\ v.n # 0

\* what a yielded JSON value is as a fragment: a string is its content
NonString == <<"<non-string>">>
Fragment(v) == IF v.t = "str" THEN v.s ELSE NonString

(***************************************************************************)
(* stream_google: the incremental parser of the streamed JSON array.       *)
(***************************************************************************)
\* the brace scan: the length of the shortest prefix of buffer on which the
\* depth, counted from 0, returns to 0 at a "}", or -1 (braces inside
\* string values count like any other)
RECURSIVE ScanFrom(_, _, _)
ScanFrom(buffer, i, depth) ==
    IF i > Len(buffer) THEN -1
    ELSE IF buffer[i] = LC THEN ScanFrom(buffer, i + 1, depth + 1)
    ELSE IF buffer[i] = RC
         THEN IF depth - 1 = 0 THEN i ELSE ScanFrom(buffer, i + 1, depth - 1)
    ELSE ScanFrom(buffer, i + 1, depth)

FindObjectEnd(buffer) == ScanFrom(buffer, 1, 0)

\* "if 'text' in part: yield part['text']" for one element of parts:
\* [raised, out]; raised is an exception other than JSONDecodeError
PartText(part) ==
    IF part.t = "obj"
    THEN IF HasKey(part, "text")
         THEN [raised |-> FALSE, out |-> <<Fragment(DictGet(part, "text", JStr(<<>>)))>>]
         ELSE [raised |-> FALSE, out |-> <<>>]
    ELSE IF part.t = "str"
    THEN \* substring test, then str['text']: TypeError
         [raised |-> \E i \in 1..Len(part.s) : part.s[i] = "text", out |-> <<>>]
    ELSE IF part.t = "arr"
    THEN \* list membership test, then list['text']: TypeError
         [raised |-> \E i \in 1..Len(part.items) : part.items[i] = JStr(<<"text">>),
          out |-> <<>>]
    ELSE \* 'text' in <number>: TypeError
         [raised |-> TRUE, out |-> <<>>]

RECURSIVE PartsTexts(_, _)
PartsTexts(parts, out) ==
    IF parts = <<>> THEN [raised |-> FALSE, out |-> out]
    ELSE LET r == PartText(Head(parts))
         IN  IF r.raised THEN [raised |-> TRUE, out |-> out]
             ELSE PartsTexts(Tail(parts), out \o r.out)

\* iterating a value: a list gives its elements, a dict its keys, a string
\* its characters
IterOf(v) ==
    IF v.t = "arr" THEN v.items
    ELSE IF v.t = "obj" THEN [i \in 1..Len(v.keys) |-> JStr(v.keys[i])]
    ELSE [i \in 1..Len(v.s) |-> JStr(<<v.s[i]>>)]

\* iter(v) raises TypeError
NotIterable(v) == v.t = "num"

\* the fragments one parsed top-level object yields (obj is a dict)
ObjectTexts(obj) ==
    LET candidates == DictGet(obj, "candidates", JArr(<<>>))
    IN  IF ~Truthy(candidates) THEN [raised |-> FALSE, out |-> <<>>]
        ELSE IF candidates.t # "arr" \/ candidates.items[1].t # "obj"
        THEN [raised |-> TRUE, out |-> <<>>]
        ELSE LET content == DictGet(candidates.items[1], "content", JObj(<<>>, <<>>))
             IN  IF content.t # "obj" THEN [raised |-> TRUE, out |-> <<>>]
                 ELSE LET parts == DictGet(content, "parts", JArr(<<>>))
                      IN  IF NotIterable(parts) THEN [raised |-> TRUE, out |-> <<>>]
                          ELSE PartsTexts(IterOf(parts), <<>>)

\* buffer.strip()[1:] when the stripped buffer starts with c, else buffer
DropLeading(buffer, c) ==
    IF StartsWith(Strip(buffer), <<c>>) THEN Tail(Strip(buffer)) ELSE buffer

\* the "while True" loop run on the buffer after a chunk was appended, until
\* it breaks: [buffer, out, raised, badjson]; badjson: the loop ended on
\* json.JSONDecodeError, cut: the candidate that failed to parse
RECURSIVE ParseLoop(_, _)
ParseLoop(buffer, out) ==
    LET b1 == DropLeading(buffer, LB)
        b2 == DropLeading(b1, CM)
        end_idx == FindObjectEnd(b2)
    IN  IF StartsWith(Strip(b2), <<RB>>)
        THEN [buffer |-> b2, out |-> out, raised |-> FALSE, badjson |-> FALSE,
              cut |-> <<>>]
        ELSE IF end_idx > 0
        THEN LET obj_str == SubSeq(b2, 1, end_idx)
                 rest == Drop(b2, end_idx)
                 obj == JsonLoads(obj_str)
             IN  IF ~obj.ok
                 THEN [buffer |-> rest, out |-> out, raised |-> FALSE,
                       badjson |-> TRUE, cut |-> obj_str]
                 ELSE LET r == ObjectTexts(obj.val)
                      IN  IF r.raised
                          THEN [buffer |-> rest, out |-> out \o r.out,
                                raised |-> TRUE, badjson |-> FALSE, cut |-> <<>>]
                          ELSE ParseLoop(rest, out \o r.out)
        ELSE [buffer |-> b2, out |-> out, raised |-> FALSE, badjson |-> FALSE,
              cut |-> <<>>]

\* the whole body delivered by response.content as the given chunks
RECURSIVE FeedChunks(_, _, _)
FeedChunks(chunks, buffer, out) ==
    IF chunks = <<>> THEN [out |-> out, raised |-> FALSE]
    ELSE LET r == ParseLoop(buffer \o Head(chunks), <<>>)
         IN  IF r.raised THEN [out |-> out \o r.out, raised |-> TRUE]
             ELSE FeedChunks(Tail(chunks), r.buffer, out \o r.out)

(***************************************************************************)
(* Google wire format.                                                     *)
(***************************************************************************)
Quoted(w) == <<QT>> \o w \o <<QT>>
Member(k, v) == <<Key(k)>> \o v

RECURSIVE JoinComma(_)
JoinComma(ss) ==
    IF ss = <<>> THEN <<>>
    ELSE IF Len(ss) = 1 THEN Head(ss)
    ELSE Head(ss) \o <<CM>> \o JoinComma(Tail(ss))

Obj(members) == <<LC>> \o JoinComma(members) \o <<RC>>
Arr(items) == <<LB>> \o JoinComma(items) \o <<RB>>

\* {"text":"..."}
GPart(text) == Obj(<<Member("text", Quoted(text))>>)

\* "candidates":[{"content":{"parts":[...]}}]
GCandidates(texts) ==
    Member("candidates",
        Arr(<<Obj(<<Member("content",
            Obj(<<Member("parts",
                Arr([i \in 1..Len(texts) |-> GPart(texts[i])]))>>))>>)>>))

\* {"candidates":[{"content":{"parts":[...]}}]}: one GenerateContentResponse
GResponse(texts) == Obj(<<GCandidates(texts)>>)

\* the streamed body: a JSON array of responses
GArray(objs) == <<LB>> \o JoinComma(objs) \o <<RB>>

(***************************************************************************)
(* src/config.py: the model table and the two lookups.                     *)
(*                                                                         *)
(* A model identifier is a sequence of atoms: each of the characters       *)
(* o, O, 1, 3 and / is an atom of its own, any other run of characters is  *)
(* one atom.  Rates are kept in units of 1e-7 USD per 1000 tokens, a cost  *)
(* in units of 1e-10 USD, so that the arithmetic is exact (the rounding of *)
(* Python floats is not modelled).                                         *)
(***************************************************************************)
GPT4O == <<"gpt-4", "o">>
HAIKU35 == <<"claude-", "3", "-5-haiku-2024", "1", "022">>
GEMINI20FLASH == <<"gemini-2.0-flash">>
GROK3 == <<"gr", "o", "k-", "3">>
DEEPSEEKCHAT == <<"deepseek-chat">>
GEMMA2 == <<"gemma2-9b-it">>

\* one entry of each provider of MODEL_CONFIGS
MODEL_CONFIGS ==
    [openai    |-> (GPT4O :> [input_cost |-> 25000, output_cost |-> 100000,
                              max_output |-> 16384]),
     anthropic |-> (HAIKU35 :> [input_cost |-> 10000, output_cost |-> 50000,
                                max_output |-> 8192]),
     google    |-> (GEMINI20FLASH :> [input_cost |-> 750, output_cost |-> 3000,
                                      max_output |-> 8192]),
     xai       |-> (GROK3 :> [input_cost |-> 50000, output_cost |-> 150000,
                              max_output |-> 32768]),
     deepseek  |-> (DEEPSEEKCHAT :> [input_cost |-> 2700, output_cost |-> 11000,
                                     max_output |-> 8192]),
     groq      |-> (GEMMA2 :> [input_cost |-> 2000, output_cost |-> 2000,
                               max_output |-> 8192])]

InTable(provider, model) ==
    /\ provider \in DOMAIN MODEL_CONFIGS
    /\ model \in DOMAIN MODEL_CONFIGS[provider]

DefaultMaxOutput == 4096

\* a token count that is not a number (a string, null)
NotANumber == -1

calculate_cost_swapped(provider, model, input_tokens, output_tokens) ==
    IF InTable(provider, model)
    THEN LET config == MODEL_CONFIGS[provider][model]
         IN  input_tokens * config.output_cost + output_tokens * config.input_cost
    ELSE 0

\* calculate_cost: (input_tokens / 1000) * input_cost
\*               + (output_tokens / 1000) * output_cost; 0.0 when the model
\* is not in the table, and when the arithmetic raises
calculate_cost(provider, model, input_tokens, output_tokens) ==
    IF InTable(provider, model)
    THEN LET config == MODEL_CONFIGS[provider][model]
         IN  IF input_tokens = NotANumber \/ output_tokens = NotANumber
             THEN 0
             ELSE input_tokens * config.input_cost
                      + output_tokens * config.output_cost
    ELSE 0

GetModelMaxTokensDefaultOnly(provider, model) == DefaultMaxOutput

\* get_model_max_tokens
get_model_max_tokens(provider, model) ==
    IF InTable(provider, model)
    THEN MODEL_CONFIGS[provider][model].max_output
    ELSE DefaultMaxOutput

(***************************************************************************)
(* APIClient: credentials and the outbound payloads.                       *)
(***************************************************************************)
ProvidersAndMistral ==
    {"openai", "anthropic", "google", "xai", "deepseek", "groq", "mistral"}

\* the provider names APIClient.call routes
Providers == {"openai", "anthropic", "google", "xai", "deepseek", "groq"}
NativeStreaming == {"openai", "anthropic", "google"}

\* max_tokens of a request that leaves it unset
Unset == -1

\* "not self.get_key(provider)": the key is absent or empty
KeyMissingNoneOnly(api_keys, provider) == provider \notin DOMAIN api_keys

KeyMissing(api_keys, provider) ==
    provider \notin DOMAIN api_keys \/ api_keys[provider] = ""

\* str.lower() on a model identifier
LowerAtom(a) == IF a = "O" THEN "o" ELSE a
Lower(model) == [i \in 1..Len(model) |-> LowerAtom(model[i])]

\* needle in s
Contains(s, needle) ==
    \E i \in 1..(Len(s) - Len(needle) + 1) :
        SubSeq(s, i, i + Len(needle) - 1) = needle

reasoning_prefixes == {<<"o", "1">>, <<"o", "3">>}

\* _is_reasoning_model
IsReasoningModelMutant(model) ==
    \E prefix \in reasoning_prefixes : StartsWith(Lower(model), prefix)

_is_reasoning_model(model) ==
    LET model_lower == Lower(model)
    IN  \E prefix \in reasoning_prefixes :
            \/ StartsWith(model_lower, prefix)
            \/ Contains(model_lower, <<"/">> \o prefix)

\* the JSON body of call_openai / stream_openai
OpenAIPayload(model, messages, temperature, max_tokens, stream) ==
    LET data == [model |-> model, messages |-> messages,
                 max_completion_tokens |-> max_tokens]
        data1 == IF stream THEN data @@ ("stream" :> TRUE) ELSE data
    IN  IF ~_is_reasoning_model(model)
        THEN data1 @@ ("temperature" :> temperature)
        ELSE data1

\* SelectSeq with the test written in place
RECURSIVE NonSystem(_)
NonSystem(messages) ==
    IF messages = <<>> THEN <<>>
    ELSE IF Head(messages).role = "system" THEN NonSystem(Tail(messages))
    ELSE <<Head(messages)>> \o NonSystem(Tail(messages))

\* the loop "for msg in messages: if msg['role'] == 'system':
\* system_content = msg['content']": the last system message's content, ""
\* when there is none
RECURSIVE SystemContent(_, _)
SystemContent(messages, system_content) ==
    IF messages = <<>> THEN system_content
    ELSE IF Head(messages).role = "system"
    THEN SystemContent(Tail(messages), Head(messages).content)
    ELSE SystemContent(Tail(messages), system_content)

\* the JSON body of call_anthropic / stream_anthropic
AnthropicPayload(model, messages, temperature, max_tokens, stream) ==
    LET system_content == SystemContent(messages, "")
        data == [model |-> model, max_tokens |-> max_tokens,
                 temperature |-> temperature, messages |-> NonSystem(messages)]
        data1 == IF stream THEN data @@ ("stream" :> TRUE) ELSE data
    IN  IF system_content # "" THEN data1 @@ ("system" :> system_content) ELSE data1

\* the conversion of the messages to Google's contents
RECURSIVE GoogleContentsUsersOnly(_)
GoogleContentsUsersOnly(messages) ==
    IF messages = <<>> THEN <<>>
    ELSE LET msg == Head(messages)
         IN  IF msg.role = "user"
             THEN <<[role |-> "user", parts |-> <<[text |-> msg.content]>>]>>
                  \o GoogleContentsUsersOnly(Tail(messages))
             ELSE GoogleContentsUsersOnly(Tail(messages))

RECURSIVE GoogleContents(_)
GoogleContents(messages) ==
    IF messages = <<>> THEN <<>>
    ELSE LET msg == Head(messages)
         IN  IF msg.role = "user"
             THEN <<[role |-> "user", parts |-> <<[text |-> msg.content]>>]>>
                  \o GoogleContents(Tail(messages))
             ELSE IF msg.role = "assistant"
             THEN <<[role |-> "model", parts |-> <<[text |-> msg.content]>>]>>
                  \o GoogleContents(Tail(messages))
             ELSE GoogleContents(Tail(messages))

\* the JSON body of call_google / stream_google
GooglePayload(model, messages, temperature, max_tokens) ==
    LET system_instruction == SystemContent(messages, "")
        payload == [contents |-> GoogleContents(messages),
                    generationConfig |-> [temperature |-> temperature,
                                          maxOutputTokens |-> max_tokens]]
    IN  IF system_instruction # ""
        THEN payload @@ ("systemInstruction" :>
                            [parts |-> <<[text |-> system_instruction]>>])
        ELSE payload

\* the JSON body of call_xai / call_deepseek / call_groq
CompatPayload(model, messages, temperature, max_tokens) ==
    [model |-> model, messages |-> messages, temperature |-> temperature,
     max_tokens |-> max_tokens]

\* the payload an adapter operation posts
AdapterPayload(provider, model, messages, temperature, max_tokens, stream) ==
    CASE provider = "openai" ->
            OpenAIPayload(model, messages, temperature, max_tokens, stream)
      [] provider = "anthropic" ->
            AnthropicPayload(model, messages, temperature, max_tokens, stream)
      [] provider = "google" ->
            GooglePayload(model, messages, temperature, max_tokens)
      [] OTHER -> CompatPayload(model, messages, temperature, max_tokens)

(***************************************************************************)
(* The documents the providers answer a non-streaming call with.           *)
(***************************************************************************)
\* a GenerateContentResponse with its usageMetadata
GoogleDoc(texts, prompt, candidates) ==
    Obj(<<GCandidates(texts),
          Member("usageMetadata",
              Obj(<<Member("promptTokenCount", <<prompt>>),
                    Member("candidatesTokenCount", <<candidates>>)>>))>>)

\* a chat completion of OpenAI, xAI, DeepSeek or Groq; echo: the members
\* that follow usage ("model", or none)
CompatDoc(content, prompt, completion, echo) ==
    Obj(<<Member("choices",
              Arr(<<Obj(<<Member("message",
                  Obj(<<Member("content", Quoted(content))>>))>>)>>)),
          Member("usage",
              Obj(<<Member("prompt_tokens", <<prompt>>),
                    Member("completion_tokens", <<completion>>)>>))>> \o echo)

\* {"type":"text","text":"..."}
TextBlock(text) ==
    Obj(<<Member("type", Quoted(<<"text">>)), Member("text", Quoted(text))>>)

\* a message of Anthropic
AnthropicDoc(texts, input, output, echo) ==
    Obj(<<Member("content", Arr([i \in 1..Len(texts) |-> TextBlock(texts[i])])),
          Member("usage",
              Obj(<<Member("input_tokens", <<input>>),
                    Member("output_tokens", <<output>>)>>))>> \o echo)

\* {"error":{"message":"..."}}
ErrorDoc == Obj(<<Member("error", Obj(<<Member("message", Quoted(<<"boom">>))>>))>>)

\* a body that is no JSON document
NotJson == <<"<html>">>

(***************************************************************************)
(* The non-streaming adapters: reading the provider's JSON document.       *)
(***************************************************************************)
\* v[k] in Python: k a member name, or "#0" for the index 0; ok = FALSE is
\* KeyError, IndexError or TypeError
Subscript(v, k) ==
    IF k = "#0"
    THEN IF v.t = "arr" /\ v.items # <<>> THEN [ok |-> TRUE, val |-> v.items[1]]
         ELSE IF v.t = "str" /\ v.s # <<>> THEN [ok |-> TRUE, val |-> JStr(<<v.s[1]>>)]
         ELSE [ok |-> FALSE, val |-> v]
    ELSE IF v.t = "obj" /\ HasKey(v, k)
         THEN [ok |-> TRUE, val |-> DictGet(v, k, v)]
         ELSE [ok |-> FALSE, val |-> v]

\* v[k1][k2]...
RECURSIVE Path(_, _)
Path(v, ks) ==
    IF ks = <<>> THEN [ok |-> TRUE, val |-> v]
    ELSE LET r == Subscript(v, Head(ks))
         IN  IF r.ok THEN Path(r.val, Tail(ks)) ELSE r

\* a token count taken from the document: a number, or NotANumber
TokenCount(v) == IF v.t = "num" THEN v.n ELSE NotANumber

\* the dict an adapter returns (cost is attached by APIClient.call)
AdapterResult(response, input_tokens, output_tokens, model) ==
    [ok |-> TRUE,
     val |-> [response |-> response, input_tokens |-> input_tokens,
              output_tokens |-> output_tokens, model |-> model]]
AdapterRaise(kind) ==
    [ok |-> FALSE, error |-> kind]

\* result.get("model", model): result is a dict
ModelOf(doc, model) ==
    IF HasKey(doc, "model") THEN Fragment(DictGet(doc, "model", doc)) ELSE model

\* the return statement of call_openai, call_xai, call_deepseek, call_groq
CompatExtract(doc, model) ==
    LET content == Path(doc, <<"choices", "#0", "message", "content">>)
        prompt == Path(doc, <<"usage", "prompt_tokens">>)
        completion == Path(doc, <<"usage", "completion_tokens">>)
    IN  IF content.ok /\ prompt.ok /\ completion.ok /\ doc.t = "obj"
        THEN AdapterResult(Fragment(content.val), TokenCount(prompt.val),
                           TokenCount(completion.val), ModelOf(doc, model))
        ELSE AdapterRaise("KeyError")

\* "for block in result.get('content', []): if block['type'] == 'text':
\* response_text += block['text']": [ok, text]
RECURSIVE BlocksText(_, _)
BlocksText(blocks, response_text) ==
    IF blocks = <<>> THEN [ok |-> TRUE, text |-> response_text]
    ELSE LET type == Subscript(Head(blocks), "type")
             text == Subscript(Head(blocks), "text")
         IN  IF ~type.ok THEN [ok |-> FALSE, text |-> response_text]
             ELSE IF type.val = JStr(<<"text">>)
             THEN IF text.ok /\ text.val.t = "str"
                  THEN BlocksText(Tail(blocks), response_text \o text.val.s)
                  ELSE [ok |-> FALSE, text |-> response_text]
             ELSE BlocksText(Tail(blocks), response_text)

\* the success path of call_anthropic
AnthropicExtract(doc, model) ==
    IF doc.t # "obj" THEN AdapterRaise("AttributeError")
    ELSE LET content == DictGet(doc, "content", JArr(<<>>))
             blocks == IF NotIterable(content) THEN [ok |-> FALSE, text |-> <<>>]
                       ELSE BlocksText(IterOf(content), <<>>)
             input == Path(doc, <<"usage", "input_tokens">>)
             output == Path(doc, <<"usage", "output_tokens">>)
         IN  IF blocks.ok /\ input.ok /\ output.ok
             THEN AdapterResult(blocks.text, TokenCount(input.val),
                                TokenCount(output.val), ModelOf(doc, model))
             ELSE AdapterRaise("KeyError")

\* usage.get(name, 0) of call_google
UsageCount(usage, name) ==
    IF HasKey(usage, name) THEN TokenCount(DictGet(usage, name, usage)) ELSE 0

\* the success path of call_google
GoogleExtract(doc, model) ==
    IF doc.t # "obj" THEN AdapterRaise("AttributeError")
    ELSE IF ~HasKey(doc, "candidates") \/ ~Truthy(DictGet(doc, "candidates", doc))
    THEN AdapterRaise("Exception: No response from Google API")
    ELSE LET candidate == Subscript(DictGet(doc, "candidates", doc), "#0")
         IN  IF ~candidate.ok \/ candidate.val.t # "obj"
             THEN AdapterRaise("KeyError")
             ELSE IF \/ ~HasKey(candidate.val, "content")
                     \/ DictGet(candidate.val, "content", doc).t # "obj"
                     \/ ~HasKey(DictGet(candidate.val, "content", doc), "parts")
             THEN AdapterRaise("Exception: Empty response from Google API")
             ELSE LET text == Path(candidate.val, <<"content", "parts", "#0", "text">>)
                      usage == DictGet(doc, "usageMetadata", JObj(<<>>, <<>>))
                  IN  IF ~text.ok \/ usage.t # "obj"
                      THEN AdapterRaise("KeyError")
                      ELSE AdapterResult(Fragment(text.val),
                                         UsageCount(usage, "promptTokenCount"),
                                         UsageCount(usage, "candidatesTokenCount"),
                                         model)

\* what an adapter's call_* does with the response: the status check, then
\* the return statement
AdapterCallResponse(provider, status, doc, model) ==
    IF status # 200
    THEN IF provider = "groq" /\ status = 429
         THEN AdapterRaise("Exception: Groq rate limit exceeded")
         ELSE AdapterRaise("Exception: API error")
    ELSE CASE provider = "anthropic" -> AnthropicExtract(doc, model)
           [] provider = "google" -> GoogleExtract(doc, model)
           [] OTHER -> CompatExtract(doc, model)

(***************************************************************************)
(* stream_openai and stream_anthropic: one line of the event stream.       *)
(* A line is a sequence of atoms; "data:" followed by a blank is the       *)
(* prefix 'data: '.  A step returns [out, stop, raised]: the fragments     *)
(* yielded, whether the loop is left, and the exception raised ("" when    *)
(* none).                                                                  *)
(***************************************************************************)
SSEPrefix == <<"data:", SP>>
DoneMark == <<LB, "DONE", RB>>

LineYields(out) == [out |-> out, stop |-> FALSE, raised |-> ""]
LineBreaks == [out |-> <<>>, stop |-> TRUE, raised |-> ""]
LineRaises(kind) == [out |-> <<>>, stop |-> FALSE, raised |-> kind]

\* the body of stream_openai's loop on a stripped line
OpenAILine(line) ==
    IF ~StartsWith(line, SSEPrefix) THEN LineYields(<<>>)
    ELSE LET data_str == Drop(line, Len(SSEPrefix))
             chunk == JsonLoads(data_str)
         IN  IF data_str = DoneMark THEN LineBreaks
             ELSE IF ~chunk.ok THEN LineYields(<<>>)
             ELSE IF chunk.val.t # "obj" THEN LineRaises("AttributeError")
             ELSE LET choices == DictGet(chunk.val, "choices",
                                         JArr(<<JObj(<<>>, <<>>)>>))
                      first == Subscript(choices, "#0")
                  IN  IF ~first.ok THEN LineRaises("IndexError")
                      ELSE IF first.val.t # "obj" THEN LineRaises("AttributeError")
                      ELSE LET delta == DictGet(first.val, "delta", JObj(<<>>, <<>>))
                           IN  IF delta.t # "obj" THEN LineRaises("AttributeError")
                               ELSE LET content == DictGet(delta, "content", JStr(<<>>))
                                    IN  IF Truthy(content)
                                        THEN LineYields(<<Fragment(content)>>)
                                        ELSE LineYields(<<>>)

\* the body of stream_anthropic's loop on a stripped line
AnthropicLine(line) ==
    IF ~StartsWith(line, SSEPrefix) THEN LineYields(<<>>)
    ELSE LET event == JsonLoads(Drop(line, Len(SSEPrefix)))
         IN  IF ~event.ok THEN LineYields(<<>>)
             ELSE IF event.val.t # "obj" THEN LineRaises("AttributeError")
             ELSE IF HasKey(event.val, "type")
                     /\ DictGet(event.val, "type", event.val)
                            = JStr(<<"content_block_delta">>)
             THEN LET delta == DictGet(event.val, "delta", JObj(<<>>, <<>>))
                  IN  IF delta.t # "obj" THEN LineRaises("AttributeError")
                      ELSE IF HasKey(delta, "type")
                              /\ DictGet(delta, "type", delta) = JStr(<<"text_delta">>)
                      THEN LineYields(<<Fragment(DictGet(delta, "text", JStr(<<>>)))>>)
                      ELSE LineYields(<<>>)
             ELSE LineYields(<<>>)

\* the lines of the event streams; NL is the line end
NL == <<SP>>
DataLine(doc) == SSEPrefix \o doc \o NL
OpenAIDelta(delta) ==
    DataLine(Obj(<<Member("choices", Arr(<<Obj(<<Member("delta", Obj(delta))>>)>>))>>))
OpenAIContent(text) == OpenAIDelta(<<Member("content", Quoted(text))>>)
OpenAIDone == DataLine(DoneMark)
AnthropicEvent(type, members) ==
    DataLine(Obj(<<Member("type", Quoted(<<type>>))>> \o members))
AnthropicTextDelta(text) ==
    AnthropicEvent("content_block_delta",
        <<Member("delta", Obj(<<Member("type", Quoted(<<"text_delta">>)),
                                Member("text", Quoted(text))>>))>>)
EventNameLine == <<"event:", SP, "content_block_delta">> \o NL

(***************************************************************************)
(* The state of one request.                                               *)
(***************************************************************************)
VARIABLES
    req,       \* the request: via, op, provider, model, messages,
               \* temperature, max_tokens, api_keys
    server,    \* what the provider answers: status, body (a JSON document),
               \* stream (the streamed content)
    pc,        \* where the client operation stands
    adapters,  \* the adapter operations invoked so far
    http,      \* the outbound HTTP requests started so far
    wire,      \* the part of the streamed content not yet received
    buffer,    \* stream_google's buffer
    yielded,   \* the fragments the stream has yielded so far
    result,    \* the dict APIClient.call returned
    error,     \* the exception the operation raised, "" when none
    events,    \* the events the streaming HTTP response has emitted so far
    reply,     \* the HTTP response of the chat endpoint: status and document
    session,   \* the aiohttp session and connection of the adapter operation:
               \* "none", "open" or "closed"
    loop,      \* the event loop of generate(): "none", "open" or "closed"
    consumer,  \* the consumer of the streaming response: "none", "pulling"
               \* (it waits for the next event), "holding" (it has one),
               \* "stopped" (it went away), "ended" (the events are exhausted)
    clients,   \* the APIClient objects made so far: the api_keys of each
    self,      \* the APIClient of this request: its index in clients, 0
               \* before it is made
    other      \* a second request in progress: its own req, ..., self

vars == <<req, server, pc, adapters, http, wire, buffer, yielded, result, error,
          events, reply, session, loop, consumer, clients, self, other>>

\* what an operation of APIClient leaves alone: the endpoint's part of the
\* state, the APIClient objects and the other request
endpoint == <<events, reply, loop, consumer, clients, self, other>>

\* no second request
NoOther == [live |-> FALSE]

\* self.api_keys
ClientKeys == clients[self]

\* "async with aiohttp.ClientSession() ... async with session.post(...)":
\* the session is open exactly while the adapter operation is inside the two
\* blocks, and is closed when it leaves them, by return or by exception
Scoped ==
    session' = IF pc' = "awaiting"
                  \/ (pc' = "streaming" /\ req.op = "stream"
                                        /\ req.provider \in {"openai", "anthropic", "google"})
               THEN "open"
               ELSE IF http' = <<>> THEN "none" ELSE "closed"

NoReply == [status |-> 0]

NoResult == [response |-> <<>>, input_tokens |-> 0, output_tokens |-> 0,
             model |-> <<>>, cost |-> 0, set |-> FALSE]

\* max_tokens as passed to the adapter
ResolvedMaxTokens ==
    IF req.max_tokens = Unset
    THEN get_model_max_tokens(req.provider, req.model)
    ELSE req.max_tokens

\* the operation raises
Raise(kind) ==
    /\ pc' = "failed"
    /\ error' = kind

\* session.post(...) of an adapter operation
Post(stream) ==
    http' = Append(http,
        [provider |-> req.provider,
         api_key |-> ClientKeys[req.provider],
         payload |-> AdapterPayload(req.provider, req.model, req.messages,
                                    req.temperature, ResolvedMaxTokens, stream)])

\* the streaming response has emitted its last event
Finished ==
    events # <<>> /\ events[Len(events)].type \in {"error", "done"}

\* the consumer of the stream has taken every fragment yielded so far, so
\* that the generator runs on
Consumed ==
    req.via = "http"
        => (consumer = "pulling" /\ Len(events) = Len(yielded) /\ ~Finished)

\* APIClient.call is what runs: called directly, or by APIClient.stream for
\* a provider without native streaming
UsesCall == req.op = "call" \/ req.provider \notin NativeStreaming

\* "yield result['response']": what APIClient.stream yields after the call
FallbackYieldTwice(r) == <<r.response, r.response>>

FallbackYield(r) == <<r.response>>

\* APIClient.call from its entry to the POST of the call_* adapter
CallStart ==
    /\ pc = "start"
    /\ UsesCall
    /\ IF req.provider \notin Providers
       THEN /\ Raise("ValueError: Unsupported provider")
            /\ UNCHANGED <<adapters, http>>
       ELSE /\ adapters' = Append(adapters, [op |-> "call", provider |-> req.provider])
            /\ IF KeyMissing(ClientKeys, req.provider)
               THEN Raise("ValueError: API key not provided") /\ UNCHANGED http
               ELSE Post(FALSE) /\ pc' = "awaiting" /\ UNCHANGED error
    /\ UNCHANGED <<req, server, wire, buffer, yielded, result, endpoint>>
    /\ Scoped

\* the response arrives: the rest of the call_* adapter, then the cost is
\* attached by APIClient.call; APIClient.stream then yields the response
CallFinish ==
    /\ pc = "awaiting"
    /\ UsesCall
    /\ LET doc == JsonLoads(server.body)
           r == AdapterCallResponse(req.provider, server.status, doc.val, req.model)
       IN  IF ~doc.ok
           THEN Raise("ContentTypeError") /\ UNCHANGED <<result, yielded>>
           ELSE IF ~r.ok
           THEN Raise(r.error) /\ UNCHANGED <<result, yielded>>
           ELSE /\ result' = r.val @@
                        [cost |-> calculate_cost(req.provider, req.model,
                                                 r.val.input_tokens,
                                                 r.val.output_tokens),
                         set |-> TRUE]
                /\ IF req.op = "stream"
                   THEN yielded' = yielded \o FallbackYield(r.val) /\ pc' = "streaming"
                   ELSE pc' = "done" /\ UNCHANGED yielded
                /\ UNCHANGED error
    /\ UNCHANGED <<req, server, adapters, http, wire, buffer, endpoint>>
    /\ Scoped

\* the connection fails or the timeout expires while the operation awaits
\* the provider
NetworkFailRetry ==
    /\ pc = "awaiting"
    /\ pc' = "start"
    /\ UNCHANGED <<req, server, adapters, http, wire, buffer, yielded, result,
                   error, endpoint>>
    /\ Scoped

NetworkFail ==
    /\ pc = "awaiting" \/ (pc = "streaming" /\ ~UsesCall /\ Consumed)
    /\ Raise("ClientError")
    /\ UNCHANGED <<req, server, adapters, http, wire, buffer, yielded, result, endpoint>>
    /\ Scoped

\* APIClient.stream with a provider that streams natively, up to the POST of
\* stream_openai / stream_anthropic / stream_google
StreamStart ==
    /\ pc = "start"
    /\ req.op = "stream"
    /\ req.provider \in NativeStreaming
    /\ adapters' = Append(adapters, [op |-> "stream", provider |-> req.provider])
    /\ IF KeyMissing(ClientKeys, req.provider)
       THEN Raise("ValueError: API key not provided") /\ UNCHANGED http
       ELSE Post(TRUE) /\ pc' = "awaiting" /\ UNCHANGED error
    /\ UNCHANGED <<req, server, wire, buffer, yielded, result, endpoint>>
    /\ Scoped

\* the response headers arrive: the status check of a stream_* adapter
StreamOpen ==
    /\ pc = "awaiting"
    /\ req.op = "stream"
    /\ req.provider \in NativeStreaming
    /\ IF server.status # 200
       THEN /\ IF JsonLoads(server.body).ok
               THEN Raise("Exception: API error")
               ELSE Raise("ContentTypeError")
            /\ UNCHANGED <<wire, buffer>>
       ELSE /\ pc' = "streaming"
            /\ wire' = server.stream
            /\ buffer' = <<>>
            /\ UNCHANGED error
    /\ UNCHANGED <<req, server, adapters, http, yielded, result, endpoint>>
    /\ Scoped

\* stream_google receives the next chunk, of k atoms, and runs its parse loop
GoogleChunk(k) ==
    /\ pc = "streaming"
    /\ req.provider = "google"
    /\ Consumed
    /\ k \in 1..Len(wire)
    /\ LET r == ParseLoop(buffer \o SubSeq(wire, 1, k), <<>>)
       IN  /\ wire' = Drop(wire, k)
           /\ buffer' = r.buffer
           /\ yielded' = yielded \o r.out
           /\ IF r.raised
              THEN Raise("TypeError")
              ELSE UNCHANGED <<pc, error>>
    /\ UNCHANGED <<req, server, adapters, http, result, endpoint>>
    /\ Scoped

\* response.content is exhausted: the generator returns
StreamEnd ==
    /\ pc = "streaming"
    /\ wire = <<>>
    /\ Consumed
    /\ pc' = "done"
    /\ UNCHANGED <<req, server, adapters, http, wire, buffer, yielded, result, error, endpoint>>
    /\ Scoped

\* stream_openai / stream_anthropic receives the next line
SSELine ==
    /\ pc = "streaming"
    /\ req.op = "stream"
    /\ req.provider \in {"openai", "anthropic"}
    /\ Consumed
    /\ wire # <<>>
    /\ LET line == Strip(Head(wire))
           r == IF req.provider = "openai" THEN OpenAILine(line)
                ELSE AnthropicLine(line)
       IN  /\ wire' = Tail(wire)
           /\ yielded' = yielded \o r.out
           /\ IF r.raised # "" THEN Raise(r.raised)
              ELSE IF r.stop THEN pc' = "done" /\ UNCHANGED error
              ELSE UNCHANGED <<pc, error>>
    /\ UNCHANGED <<req, server, adapters, http, buffer, result, endpoint>>
    /\ Scoped

(***************************************************************************)
(* app.py: the chat endpoint.  response_time, a clock reading, is left out *)
(* of the documents.                                                       *)
(***************************************************************************)
\* client = APIClient(api_keys): a new object that holds the api_keys
MakeSharedClient(api_keys) ==
    /\ clients' = <<api_keys>>
    /\ self' = 1

MakeClient(api_keys) ==
    /\ clients' = Append(clients, api_keys)
    /\ self' = Len(clients) + 1

Refuse(message) ==
    /\ pc' = "replied"
    /\ reply' = [status |-> 400, error |-> message]

\* chat() from the request document to the creation of the client; a
\* streaming request is answered with the event stream generate() feeds:
\* generate() makes its event loop and the consumer asks for the first event
ChatValidate ==
    /\ pc = "received"
    /\ IF req.provider = "" THEN Refuse("Provider is required")
       ELSE IF req.model = <<>> THEN Refuse("Model is required")
       ELSE IF req.messages = <<>> THEN Refuse("Messages are required")
       ELSE IF req.provider \notin DOMAIN req.api_keys
       THEN Refuse("API key is required")
       ELSE /\ pc' = "start"
            /\ reply' = IF req.op = "stream"
                        THEN [status |-> 200, mimetype |-> "text/event-stream"]
                        ELSE NoReply
    /\ IF pc' = "start" /\ req.op = "stream"
       THEN loop' = "open" /\ consumer' = "pulling"
       ELSE UNCHANGED <<loop, consumer>>
    /\ IF pc' = "start"
       THEN MakeClient(req.api_keys)
       ELSE UNCHANGED <<clients, self>>
    /\ UNCHANGED <<req, server, adapters, http, wire, buffer, yielded, result,
                   error, events, session, other>>

\* the non-streaming branch: the document made of the result, or the
\* "except Exception" of chat()
ChatReplyWithPartialResult ==
    /\ req.via = "http"
    /\ req.op = "call"
    /\ pc \in {"done", "failed"}
    /\ reply' = [status |-> IF pc = "done" THEN 200 ELSE 500,
                 error |-> error, response |-> result.response,
                 cost |-> result.cost]
    /\ pc' = "replied"
    /\ UNCHANGED <<req, server, adapters, http, wire, buffer, yielded, result,
                   error, events, session, loop, consumer,
                   clients, self, other>>

ChatReply ==
    /\ req.via = "http"
    /\ req.op = "call"
    /\ pc \in {"done", "failed"}
    /\ reply' = IF pc = "done"
                THEN [status |-> 200, response |-> result.response,
                      provider |-> req.provider, model |-> result.model,
                      input_tokens |-> result.input_tokens,
                      output_tokens |-> result.output_tokens,
                      cost |-> result.cost]
                ELSE [status |-> 500, error |-> error]
    /\ pc' = "replied"
    /\ UNCHANGED <<req, server, adapters, http, wire, buffer, yielded, result,
                   error, events, session, loop, consumer,
                   clients, self, other>>

\* len(m.get('content', '')): every non-empty content of the modelled
\* conversations has two characters
ContentLen(m) == IF m.content = "" THEN 0 ELSE 2

RECURSIVE SumContentLen(_)
SumContentLen(messages) ==
    IF messages = <<>> THEN 0
    ELSE ContentLen(Head(messages)) + SumContentLen(Tail(messages))

\* the metadata document of stream_response; every atom of a text is one
\* character
Metadata(full_response) ==
    LET input_tokens == SumContentLen(req.messages) \div 4
        output_tokens == Len(full_response) \div 4
    IN  [type |-> "metadata", provider |-> req.provider, model |-> req.model,
         input_tokens |-> input_tokens, output_tokens |-> output_tokens,
         cost |-> calculate_cost(req.provider, req.model,
                                 input_tokens, output_tokens)]

ErrorEvent(e) == [type |-> "error", error |-> e]

\* stream_response takes the next fragment of client.stream and emits its
\* content event; "full_response += chunk" raises on a fragment that is no
\* string, and the fragments behind it are never asked for
HttpContent ==
    /\ req.via = "http"
    /\ consumer = "pulling"
    /\ req.op = "stream"
    /\ ~Finished
    /\ Len(events) < Len(yielded)
    /\ LET chunk == yielded[Len(events) + 1]
       IN  IF chunk = NonString
           THEN /\ events' = Append(events, ErrorEvent("TypeError"))
                /\ yielded' = SubSeq(yielded, 1, Len(events) + 1)
           ELSE /\ events' = Append(events, [type |-> "content", content |-> chunk])
                /\ UNCHANGED yielded
    /\ UNCHANGED <<req, server, pc, adapters, http, wire, buffer, result, error,
                   reply, session, loop, clients, self, other>>
    /\ consumer' = "holding"

\* the stream has ended: the metadata event
HttpMetadata ==
    /\ req.via = "http"
    /\ consumer = "pulling"
    /\ req.op = "stream"
    /\ pc = "done"
    /\ Len(events) = Len(yielded)
    /\ ~Finished
    /\ events' = Append(events, Metadata(Concat(yielded)))
    /\ UNCHANGED <<req, server, pc, adapters, http, wire, buffer, yielded, result,
                   error, reply, session, loop,
                   clients, self, other>>
    /\ consumer' = "holding"

\* "data: [DONE]"
HttpDoneWithoutMetadata ==
    /\ req.via = "http"
    /\ consumer = "pulling"
    /\ req.op = "stream"
    /\ pc = "done"
    /\ Len(events) = Len(yielded)
    /\ events' = Append(events, [type |-> "done"])
    /\ UNCHANGED <<req, server, pc, adapters, http, wire, buffer, yielded, result,
                   error, reply, session, loop,
                   clients, self, other>>
    /\ consumer' = "holding"

HttpDone ==
    /\ req.via = "http"
    /\ consumer = "pulling"
    /\ events # <<>>
    /\ events[Len(events)].type = "metadata"
    /\ events' = Append(events, [type |-> "done"])
    /\ UNCHANGED <<req, server, pc, adapters, http, wire, buffer, yielded, result,
                   error, reply, session, loop,
                   clients, self, other>>
    /\ consumer' = "holding"

\* the stream has raised: the "except Exception" of stream_response
HttpErrorThenDone ==
    /\ req.via = "http"
    /\ consumer = "pulling"
    /\ req.op = "stream"
    /\ pc = "failed"
    /\ Len(events) = Len(yielded)
    /\ ~Finished
    /\ events' = events \o <<ErrorEvent(error), [type |-> "done"]>>
    /\ UNCHANGED <<req, server, pc, adapters, http, wire, buffer, yielded, result,
                   error, reply, session, loop,
                   clients, self, other>>
    /\ consumer' = "holding"

HttpError ==
    /\ req.via = "http"
    /\ consumer = "pulling"
    /\ req.op = "stream"
    /\ pc = "failed"
    /\ Len(events) = Len(yielded)
    /\ ~Finished
    /\ events' = Append(events, ErrorEvent(error))
    /\ UNCHANGED <<req, server, pc, adapters, http, wire, buffer, yielded, result,
                   error, reply, session, loop,
                   clients, self, other>>
    /\ consumer' = "holding"

\* the consumer has taken an event and asks for the next one; when the
\* events are exhausted generate() leaves its loop: "finally: loop.close()"
HttpNext ==
    /\ consumer = "holding"
    /\ IF Finished
       THEN consumer' = "ended" /\ loop' = "closed"
       ELSE consumer' = "pulling" /\ UNCHANGED loop
    /\ UNCHANGED <<req, server, pc, adapters, http, wire, buffer, yielded, result,
                   error, events, reply, session,
                   clients, self, other>>

\* the consumer goes away: generate() is closed where it is suspended, at
\* its "yield chunk", and only its "finally: loop.close()" runs;
\* stream_response and the generator of client.stream are not resumed
Disconnect ==
    /\ consumer = "holding"
    /\ consumer' = "stopped"
    /\ loop' = "closed"
    /\ UNCHANGED <<req, server, pc, adapters, http, wire, buffer, yielded, result,
                   error, events, reply, session,
                   clients, self, other>>

\* the abandoned generators are destroyed by the interpreter at some later
\* time, and the destructors of the response and the connector let go of
\* the connection; no "async with" exit is run for it
Finalize ==
    /\ consumer = "stopped"
    /\ pc = "streaming"
    /\ pc' = "collected"
    /\ session' = IF session = "open" THEN "closed" ELSE session
    /\ UNCHANGED <<req, server, adapters, http, wire, buffer, yielded, result,
                   error, events, reply, loop, consumer,
                   clients, self, other>>

(***************************************************************************)
(* The Google stream parser on bounded bodies.                             *)
(***************************************************************************)
MaxText == 2
MaxObjs == 2

TextAtoms == {"x", SP, LC, RC}
Texts == UNION {[1..k -> TextAtoms] : k \in 0..MaxText}

\* {"modelVersion":"..."}: an element of the array without candidates
GMeta(text) == <<LC>> \o Member("modelVersion", Quoted(text)) \o <<RC>>

FirstObjs ==
    {GResponse(<<t>>) : t \in Texts}
        \cup {GMeta(t) : t \in Texts}
        \cup {GResponse(<<t, <<"y">>>>) : t \in {<<>>, <<"x">>}}
NextObjs == {GResponse(<<<<"z">>>>), GResponse(<<<<>>>>)}

\* {"candidates":}: an element of the array that is not JSON
GMalformed == <<LC, Key("candidates"), RC>>

GoogleBodies ==
    {GArray(<<o>> \o rest) :
        o \in FirstObjs, rest \in UNION {[1..k -> NextObjs] : k \in 0..(MaxObjs - 1)}}
        \cup {GArray(<<GMalformed, GResponse(<<<<"z">>>>)>>)}

UserHi == <<[role |-> "user", content |-> "hi"]>>

InitGoogle ==
    /\ req = [via |-> "client", op |-> "stream", provider |-> "google",
              model |-> GEMINI20FLASH, messages |-> UserHi, temperature |-> 7,
              max_tokens |-> Unset, api_keys |-> [google |-> "k"]]
    /\ server \in {[status |-> 200, body |-> <<>>, stream |-> b] : b \in GoogleBodies}
    /\ pc = "start"
    /\ adapters = <<>>
    /\ http = <<>>
    /\ wire = <<>>
    /\ buffer = <<>>
    /\ yielded = <<>>
    /\ result = NoResult
    /\ error = ""
    /\ events = <<>>
    /\ reply = NoReply
    /\ session = "none"
    /\ loop = "none"
    /\ consumer = "none"
    /\ clients = <<req.api_keys>>
    /\ self = 1
    /\ other = NoOther

NextGoogle ==
    \/ StreamStart
    \/ StreamOpen
    \/ \E k \in 1..Len(wire) : GoogleChunk(k)
    \/ StreamEnd

SpecGoogle == InitGoogle /\ [][NextGoogle]_vars

\* what stream_google yields when the whole body arrives as one chunk
WholeBody(body) == FeedChunks(<<body>>, <<>>, <<>>)

\* C1: chunk-split invariance: however the body was split into chunks, when
\* the stream has ended the fragments yielded are those of the body
\* delivered as one chunk
C1_ChunkSplitInvariance ==
    (pc = "done" /\ req.provider = "google")
        => yielded = WholeBody(server.stream).out

(***************************************************************************)
(* APIClient.call and APIClient.stream over the providers, the credentials *)
(* and the provider's answers.                                             *)
(***************************************************************************)
KnownModel(provider) ==
    CASE provider = "openai" -> GPT4O
      [] provider = "anthropic" -> HAIKU35
      [] provider = "google" -> GEMINI20FLASH
      [] provider = "xai" -> GROK3
      [] provider = "deepseek" -> DEEPSEEKCHAT
      [] provider = "groq" -> GEMMA2
      [] OTHER -> <<"mistral-large">>
UnknownModel == <<"m", "o", "del-x">>

\* the model a provider says it used
Echo == <<Member("model", Quoted(<<"served-m", "o", "del">>))>>

\* no key at all, an empty key, a key, a key of another provider only
KeysFor(provider) ==
    {[x \in {} |-> ""], (provider :> ""), (provider :> "k"),
     ((IF provider = "openai" THEN "anthropic" ELSE "openai") :> "k2")}

\* answers with status 200 that leave out the usage member, or the second
\* of its counts
UsageLeftOut(name, first) ==
    {<<>>, <<Member(name, Obj(<<Member(first, <<"1000">>)>>))>>}

DocsWithoutUsage(provider) ==
    CASE provider = "anthropic" ->
            {Obj(<<Member("content", Arr(<<TextBlock(<<"x">>)>>))>> \o u) :
                u \in UsageLeftOut("usage", "input_tokens")}
      [] provider = "google" ->
            {Obj(<<GCandidates(<<<<"x">>>>)>> \o u) :
                u \in UsageLeftOut("usageMetadata", "promptTokenCount")}
      [] OTHER ->
            {Obj(<<Member("choices",
                       Arr(<<Obj(<<Member("message",
                           Obj(<<Member("content", Quoted(<<"x">>))>>))>>)>>))>> \o u) :
                u \in UsageLeftOut("usage", "prompt_tokens")}

DocsFor(provider) ==
    (CASE provider = "anthropic" ->
            {AnthropicDoc(<<<<"x">>>>, "1000", "2000", Echo),
             AnthropicDoc(<<<<"x">>, <<"y">>>>, "2000", "1000", <<>>),
             AnthropicDoc(<<>>, "0", "0", <<>>)}
      [] provider = "google" ->
            {GoogleDoc(<<<<"x">>>>, "1000", "2000"),
             GoogleDoc(<<<<"x">>, <<"y">>>>, "2000", "1000"),
             GResponse(<<<<>>>>)}
      [] OTHER ->
            {CompatDoc(<<"x">>, "1000", "2000", Echo),
             CompatDoc(<<"x", SP, "y">>, "2000", "1000", <<>>),
             CompatDoc(<<>>, "0", "0", <<>>)})
        \cup DocsWithoutUsage(provider)

ClientRequests ==
    UNION {
        {[via |-> "client", op |-> o, provider |-> p, model |-> m,
          messages |-> UserHi, temperature |-> 7, max_tokens |-> mt,
          api_keys |-> ks] :
            o \in {"call", "stream"}, m \in {KnownModel(p), UnknownModel},
            mt \in {Unset, 100}, ks \in KeysFor(p)} :
        p \in Providers \cup {"mistral"}}

ServersFor(provider) ==
    {[status |-> st, body |-> b, stream |-> <<>>] :
        st \in {200, 429}, b \in DocsFor(provider) \cup {ErrorDoc, NotJson}}

InitClient ==
    /\ req \in ClientRequests
    /\ server \in ServersFor(req.provider)
    /\ pc = "start"
    /\ adapters = <<>>
    /\ http = <<>>
    /\ wire = <<>>
    /\ buffer = <<>>
    /\ yielded = <<>>
    /\ result = NoResult
    /\ error = ""
    /\ events = <<>>
    /\ reply = NoReply
    /\ session = "none"
    /\ loop = "none"
    /\ consumer = "none"
    /\ clients = <<req.api_keys>>
    /\ self = 1
    /\ other = NoOther

NextClient ==
    \/ CallStart
    \/ CallFinish
    \/ StreamStart
    \/ StreamOpen
    \/ StreamEnd
    \/ NetworkFail

SpecClient == InitClient /\ [][NextClient]_vars

\* the credentials hold no non-empty key for the requested provider
NoCredential ==
    \A p \in DOMAIN req.api_keys : p = req.provider => req.api_keys[p] = ""

SixProviders == {"openai", "anthropic", "google", "xai", "deepseek", "groq"}

\* C3: for each of the six providers, call and stream alike: without a
\* non-empty key for the provider no HTTP request is ever started, the
\* operation gets no further than its failure, and the failure is the
\* missing-credential error
C3_MissingCredentialBeforeIO ==
    (req.provider \in SixProviders /\ NoCredential)
        => /\ http = <<>>
           /\ pc \in {"start", "failed"}
           /\ pc = "failed" => error = "ValueError: API key not provided"

\* a stream over the fallback path has failed for want of a key
C3_Witness ==
    /\ req.provider = "groq"
    /\ req.op = "stream"
    /\ "groq" \in DOMAIN req.api_keys
    /\ NoCredential
    /\ pc = "failed"
    /\ error = "ValueError: API key not provided"

\* C4: a provider name outside the six: call and stream fail with the
\* unsupported-provider error, no adapter operation is invoked, no request
\* is started and nothing is yielded
C4_UnsupportedProvider ==
    req.provider \notin SixProviders
        => /\ adapters = <<>>
           /\ http = <<>>
           /\ yielded = <<>>
           /\ pc \in {"start", "failed"}
           /\ pc = "failed" => error = "ValueError: Unsupported provider"

\* a stream of an unsupported provider has failed, with a key for it at hand
C4_Witness ==
    /\ req.provider = "mistral"
    /\ req.op = "stream"
    /\ ~NoCredential
    /\ "mistral" \in DOMAIN req.api_keys
    /\ pc = "failed"
    /\ error = "ValueError: Unsupported provider"

NonNative == {"xai", "deepseek", "groq"}

\* C5: a stream of a provider without native streaming yields at most one
\* fragment; once the call has succeeded it has yielded exactly one, the
\* response text of the call, and nothing is left to receive: the stream
\* ends
C5_FallbackSingleFragment ==
    (req.op = "stream" /\ req.provider \in NonNative)
        => /\ Len(yielded) <= 1
           /\ wire = <<>>
           /\ pc \in {"streaming", "done"}
                => /\ result.set
                   /\ yielded = <<result.response>>
           /\ pc \in {"start", "awaiting", "failed"} => yielded = <<>>

\* a DeepSeek stream has ended after its one fragment, of several atoms
C5_Witness ==
    /\ req.op = "stream"
    /\ req.provider = "deepseek"
    /\ pc = "done"
    /\ yielded = <<<<"x", SP, "y">>>>

\* C8 as stated: every result of APIClient.call carries the cost computed
\* from its own token counts and the rates of the table entry of the
\* request's (provider, model)
C8_CostFromTableEntry ==
    result.set
        => /\ InTable(req.provider, req.model)
           /\ result.cost =
                result.input_tokens * MODEL_CONFIGS[req.provider][req.model].input_cost
                + result.output_tokens * MODEL_CONFIGS[req.provider][req.model].output_cost

\* C8 amended: the cost is computed from the table entry when the request's
\* (provider, model) has one, and is 0 when it has none; the dict the
\* adapter returns has no cost
C8_CostFromTableEntryOrZero ==
    /\ result.set
        => IF InTable(req.provider, req.model)
           THEN result.cost =
                result.input_tokens * MODEL_CONFIGS[req.provider][req.model].input_cost
                + result.output_tokens * MODEL_CONFIGS[req.provider][req.model].output_cost
           ELSE result.cost = 0
    /\ JsonLoads(server.body).ok
        => LET r == AdapterCallResponse(req.provider, server.status,
                                        JsonLoads(server.body).val, req.model)
           IN  r.ok => "cost" \notin DOMAIN r.val

\* a call of a model of the table has returned a result with a non-zero
\* cost, the provider having named another model than the one requested
C8_Witness ==
    /\ result.set
    /\ req.op = "call"
    /\ InTable(req.provider, req.model)
    /\ result.model # req.model
    /\ result.input_tokens = 1000
    /\ result.output_tokens = 2000
    /\ result.cost > 0

(***************************************************************************)
(* Native streaming against the non-streaming call: the provider gives the *)
(* same answer as a document (server.body) and as a stream (server.stream).*)
(***************************************************************************)
MaxParts == 2

PartTexts == {<<>>, <<"x">>, <<"y", SP>>}

\* an answer: the texts of its parts, content blocks or deltas
Answers == UNION {[1..k -> PartTexts] : k \in 1..MaxParts}

\* the answer as the provider streams it
StreamOf(provider, answer) ==
    CASE provider = "openai" ->
            <<OpenAIDelta(<<Member("role", Quoted(<<"assistant">>))>>)>>
            \o [i \in 1..Len(answer) |-> OpenAIContent(answer[i])]
            \o <<NL, OpenAIDelta(<<>>), OpenAIDone>>
      [] provider = "anthropic" ->
            <<AnthropicEvent("message_start", <<>>), EventNameLine>>
            \o [i \in 1..Len(answer) |-> AnthropicTextDelta(answer[i])]
            \o <<AnthropicEvent("message_stop", <<>>)>>
      [] OTHER -> GArray(<<GResponse(answer)>>)

\* the answer as the document of a non-streaming call
DocOf(provider, answer) ==
    CASE provider = "openai" -> CompatDoc(Concat(answer), "1000", "2000", <<>>)
      [] provider = "anthropic" -> AnthropicDoc(answer, "1000", "2000", <<>>)
      [] OTHER -> GoogleDoc(answer, "1000", "2000")

InitStream ==
    /\ \E p \in NativeStreaming :
        /\ req = [via |-> "client", op |-> "stream", provider |-> p,
                  model |-> KnownModel(p), messages |-> UserHi, temperature |-> 7,
                  max_tokens |-> Unset, api_keys |-> (p :> "k")]
        /\ \E a \in Answers :
            server = [status |-> 200, body |-> DocOf(p, a), stream |-> StreamOf(p, a)]
    /\ pc = "start"
    /\ adapters = <<>>
    /\ http = <<>>
    /\ wire = <<>>
    /\ buffer = <<>>
    /\ yielded = <<>>
    /\ result = NoResult
    /\ error = ""
    /\ events = <<>>
    /\ reply = NoReply
    /\ session = "none"
    /\ loop = "none"
    /\ consumer = "none"
    /\ clients = <<req.api_keys>>
    /\ self = 1
    /\ other = NoOther

NextStream ==
    \/ StreamStart
    \/ StreamOpen
    \/ SSELine
    \/ \E k \in 1..Len(wire) : GoogleChunk(k)
    \/ StreamEnd

SpecStream == InitStream /\ [][NextStream]_vars

\* what the non-streaming call returns as 'response' for the document
CallResponse ==
    AdapterCallResponse(req.provider, server.status,
                        JsonLoads(server.body).val, req.model)

\* C2: when a native stream has ended, its fragments concatenated in order
\* are the 'response' text the non-streaming call returns for the same
\* answer
C2_StreamConcatEqualsCall ==
    (pc = "done" /\ req.op = "stream" /\ req.provider \in NativeStreaming)
        => /\ CallResponse.ok
           /\ Concat(yielded) = CallResponse.val.response

\* C9: no stream ever yields an empty fragment
C9_NoEmptyFragment ==
    \A i \in 1..Len(yielded) : yielded[i] # <<>>

(***************************************************************************)
(* The outbound payloads over model identifiers and conversations.         *)
(***************************************************************************)
MaxModelLen == 3
MaxMsgs == 3

ModelAtoms == {"o", "O", "1", "3", "/", "x"}
O3MINI == <<"o", "3", "-mini">>
ROUTED_O1 == <<"x", "/", "O", "1", "-mini">>

ModelNames ==
    UNION {[1..k -> ModelAtoms] : k \in 1..MaxModelLen}
        \cup {O3MINI, GPT4O, ROUTED_O1}

MessageKinds ==
    {[role |-> "system", content |-> c] : c \in {"", "s1", "s2"}}
        \cup {[role |-> "user", content |-> c] : c \in {"u1", "u2"}}
        \cup {[role |-> "assistant", content |-> "a1"]}

Conversations == UNION {[1..k -> MessageKinds] : k \in 1..MaxMsgs}

PayloadRequests ==
    {[via |-> "client", op |-> o, provider |-> "openai", model |-> m,
      messages |-> UserHi, temperature |-> 7, max_tokens |-> Unset,
      api_keys |-> [openai |-> "k"]] :
        o \in {"call", "stream"}, m \in ModelNames}
    \cup
    {[via |-> "client", op |-> o, provider |-> p, model |-> KnownModel(p),
      messages |-> c, temperature |-> 7, max_tokens |-> Unset,
      api_keys |-> (p :> "k")] :
        o \in {"call", "stream"}, p \in Providers, c \in Conversations}

InitPayload ==
    /\ req \in PayloadRequests
    /\ server = [status |-> 200, body |-> NotJson, stream |-> <<>>]
    /\ pc = "start"
    /\ adapters = <<>>
    /\ http = <<>>
    /\ wire = <<>>
    /\ buffer = <<>>
    /\ yielded = <<>>
    /\ result = NoResult
    /\ error = ""
    /\ events = <<>>
    /\ reply = NoReply
    /\ session = "none"
    /\ loop = "none"
    /\ consumer = "none"
    /\ clients = <<req.api_keys>>
    /\ self = 1
    /\ other = NoOther

NextPayload ==
    \/ CallStart
    \/ StreamStart
    \/ NetworkFail

SpecPayload == InitPayload /\ [][NextPayload]_vars

\* the identifier, whatever its case, begins with o1 or o3 or has o1 or o3
\* directly after a '/'
ReasoningIdentifier(model) ==
    \E i \in 1..(Len(model) - 1) :
        /\ model[i] \in {"o", "O"}
        /\ model[i + 1] \in {"1", "3"}
        /\ i = 1 \/ model[i - 1] = "/"

\* C6: every payload posted to OpenAI, by call_openai and by stream_openai,
\* has a temperature field exactly when the model of the request is no
\* reasoning model
C6_TemperatureIffNotReasoning ==
    \A i \in 1..Len(http) :
        http[i].provider = "openai"
            => /\ http[i].payload.model = req.model
               /\ ("temperature" \in DOMAIN http[i].payload)
                    <=> ~ReasoningIdentifier(req.model)

\* stream_openai has posted, without temperature, for a model that has O1
\* after a '/'
C6_Witness ==
    /\ req.provider = "openai"
    /\ req.op = "stream"
    /\ req.model = ROUTED_O1
    /\ Len(http) = 1
    /\ "temperature" \notin DOMAIN http[1].payload
    /\ "stream" \in DOMAIN http[1].payload

\* the messages of the conversation that are no system messages, in order
TurnsOf(messages) == SelectSeq(messages, LAMBDA m : m.role \in {"user", "assistant"})

\* C7: every payload posted to Anthropic has no system message among its
\* messages, which are exactly the user and assistant messages of the
\* conversation, and when the conversation has a system message the payload
\* has a 'system' field that holds the content of a system message of the
\* conversation
C7_SystemMessageSeparated ==
    \A i \in 1..Len(http) :
        http[i].provider = "anthropic"
            => /\ \A j \in 1..Len(http[i].payload.messages) :
                    http[i].payload.messages[j].role # "system"
               /\ http[i].payload.messages = TurnsOf(req.messages)
               /\ (\E j \in 1..Len(req.messages) : req.messages[j].role = "system")
                    => /\ "system" \in DOMAIN http[i].payload
                       /\ \E j \in 1..Len(req.messages) :
                            /\ req.messages[j].role = "system"
                            /\ req.messages[j].content = http[i].payload.system

(***************************************************************************)
(* The chat endpoint over requests, credentials and provider answers.      *)
(***************************************************************************)
\* a stream of OpenAI whose second event has an empty choices list
OpenAIEmptyChoices ==
    <<OpenAIContent(<<"x">>),
      DataLine(Obj(<<Member("choices", Arr(<<>>))>>)),
      OpenAIContent(<<"y">>), OpenAIDone>>

HttpAnswers == {<<<<"x">>>>, <<<<"x">>, <<"y", SP>>>>}

HttpServers(provider) ==
    {[status |-> st, body |-> DocOf(provider, a), stream |-> StreamOf(provider, a)] :
        st \in {200, 429}, a \in HttpAnswers}
    \cup (IF provider = "openai"
          THEN {[status |-> 200, body |-> NotJson, stream |-> OpenAIEmptyChoices]}
          ELSE {})

HttpRequests ==
    UNION {
        {[via |-> "http", op |-> o, provider |-> p, model |-> m,
          messages |-> ms, temperature |-> 7, max_tokens |-> Unset,
          api_keys |-> ks] :
            o \in {"call", "stream"}, m \in {KnownModel(p), <<>>},
            ms \in {UserHi, <<>>}, ks \in KeysFor(p)} :
        p \in {"openai", "anthropic", "google", "groq", "mistral", ""}}

InitHttp ==
    /\ req \in HttpRequests
    /\ server \in HttpServers(req.provider)
    /\ pc = "received"
    /\ adapters = <<>>
    /\ http = <<>>
    /\ wire = <<>>
    /\ buffer = <<>>
    /\ yielded = <<>>
    /\ result = NoResult
    /\ error = ""
    /\ events = <<>>
    /\ reply = NoReply
    /\ session = "none"
    /\ loop = "none"
    /\ consumer = "none"
    /\ clients = <<>>
    /\ self = 0
    /\ other = NoOther

NextHttp ==
    \/ ChatValidate
    \/ CallStart
    \/ CallFinish
    \/ StreamStart
    \/ StreamOpen
    \/ SSELine
    \/ \E k \in 1..Len(wire) : GoogleChunk(k)
    \/ StreamEnd
    \/ NetworkFail
    \/ ChatReply
    \/ HttpContent
    \/ HttpMetadata
    \/ HttpDone
    \/ HttpError
    \/ HttpNext
    \/ Disconnect
    \/ Finalize

SpecHttp == InitHttp /\ [][NextHttp]_vars

\* the number of content events among the events
ContentCount == Cardinality({i \in 1..Len(events) : events[i].type = "content"})

\* in a streaming response whose stream has failed: the events are content
\* events, one per fragment taken, followed by at most one error event, which
\* is the last event; and the error event is never left out: when it is not
\* there yet, the consumer has gone away or the next step of the response
\* is enabled
FailedStreamEvents ==
    (req.via = "http" /\ req.op = "stream" /\ pc = "failed")
        => /\ \A i \in 1..Len(events) :
                \/ /\ events[i].type = "content"
                   /\ i <= Len(yielded)
                   /\ events[i].content = yielded[i]
                \/ /\ events[i].type = "error"
                   /\ i = Len(events)
                   /\ i = Len(yielded) + 1
                   /\ events[i].error = error
           /\ \/ Finished
              \/ consumer \in {"holding", "stopped"}
              \/ ENABLED HttpContent
              \/ ENABLED HttpError

\* no step retracts or changes an emitted event, and nothing is emitted
\* after an error event
EventsOnlyAppended ==
    /\ Len(events') >= Len(events)
    /\ SubSeq(events', 1, Len(events)) = events
    /\ (events # <<>> /\ events[Len(events)].type = "error") => events' = events

\* C10: when the stream fails after k content events, the k content events
\* stay as emitted, exactly one error event follows them, and it is the last
\* event of the response
C10_ErrorEventIsLast ==
    [](FailedStreamEvents) /\ [][EventsOnlyAppended]_vars

\* a stream has failed after two content events and the error event is out
C10_Witness ==
    /\ req.via = "http"
    /\ req.op = "stream"
    /\ pc = "failed"
    /\ ContentCount = 2
    /\ Len(events) = 3
    /\ events[3].type = "error"

\* in a streaming response whose stream has ended without error: the events
\* are the content events of the fragments, in order, then one metadata
\* event, then [DONE], and nothing else; while they are not all out and the
\* consumer waits, the next of them is enabled
CompletedStreamEvents ==
    (req.via = "http" /\ req.op = "stream" /\ pc = "done")
        => /\ Len(events) <= Len(yielded) + 2
           /\ \A i \in 1..Len(events) :
                IF i <= Len(yielded)
                THEN events[i] = [type |-> "content", content |-> yielded[i]]
                ELSE IF i = Len(yielded) + 1
                THEN events[i].type = "metadata"
                ELSE events[i] = [type |-> "done"]
           /\ consumer = "pulling"
                => ENABLED HttpContent \/ ENABLED HttpMetadata \/ ENABLED HttpDone
           /\ consumer = "ended" => Len(events) = Len(yielded) + 2

\* no metadata event and no [DONE] before the stream has ended, and no
\* metadata event before a content event
MetadataAfterContent ==
    /\ \A i \in 1..Len(events) :
            events[i].type \in {"metadata", "done"} => pc = "done"
    /\ \A i, j \in 1..Len(events) :
            (events[i].type = "metadata" /\ events[j].type = "content") => j < i

\* C11: a streaming response whose stream completes without error emits one
\* content event per fragment in order, then one metadata event, then
\* [DONE] as the last event; metadata never precedes a content event
C11_CompletedStreamEvents ==
    req.via = "http" => (CompletedStreamEvents /\ MetadataAfterContent)

\* a stream of two fragments has been answered to its end
C11_Witness ==
    /\ req.via = "http"
    /\ pc = "done"
    /\ consumer = "ended"
    /\ Len(yielded) = 2
    /\ Len(events) = 4
    /\ events[3].type = "metadata"
    /\ events[4].type = "done"

\* C13: once the consumer has stopped and the event loop is closed, the
\* connection of the provider stream is released and its generator is not
\* left suspended
C13_DisconnectReleases ==
    (consumer = "stopped" /\ loop = "closed")
        => (session # "open" /\ pc # "streaming")

\* C12: a call or a stream starts at most one HTTP request; once it has
\* failed it starts no other, and the failure it reported stays the one
\* failure
C12_SingleAttempt ==
    /\ [](Len(http) <= 1 /\ Len(adapters) <= 1 /\ (pc = "failed" <=> error # ""))
    /\ [][pc = "failed" => (http' = http /\ error' = error /\ pc' = "failed")]_vars

\* a fallback stream has failed after its one request, the provider having
\* answered 429
C12_Witness ==
    /\ req.op = "stream"
    /\ req.provider = "groq"
    /\ server.status = 429
    /\ pc = "failed"
    /\ Len(http) = 1
    /\ error = "Exception: Groq rate limit exceeded"

\* the user and assistant messages a payload carries, in its order: the
\* 'messages' of OpenAI, Anthropic, xAI, DeepSeek and Groq, the 'contents' of
\* Google read back (role model is assistant, the text of the one part)
PayloadTurns(provider, payload) ==
    IF provider = "google"
    THEN [i \in 1..Len(payload.contents) |->
            [role |-> IF payload.contents[i].role = "model" THEN "assistant"
                      ELSE payload.contents[i].role,
             content |-> payload.contents[i].parts[1].text]]
    ELSE TurnsOf(payload.messages)

\* C14: in every payload posted, by every adapter, the user and assistant
\* messages are those of the request, each once and on its own, in the
\* order of the request
C14_MessageOrderKept ==
    \A i \in 1..Len(http) :
        /\ PayloadTurns(http[i].provider, http[i].payload) = TurnsOf(req.messages)
        /\ http[i].provider = "google"
            => \A j \in 1..Len(http[i].payload.contents) :
                    Len(http[i].payload.contents[j].parts) = 1
        /\ http[i].provider \in {"openai", "xai", "deepseek", "groq"}
            => http[i].payload.messages = req.messages

\* stream_google has posted a conversation that repeats a user message
\* around an assistant message
C14_Witness ==
    /\ req.provider = "google"
    /\ req.op = "stream"
    /\ req.messages = <<[role |-> "user", content |-> "u1"],
                        [role |-> "assistant", content |-> "a1"],
                        [role |-> "user", content |-> "u1"]>>
    /\ Len(http) = 1
    /\ Len(http[1].payload.contents) = 3

\* C15: a non-streaming call that has failed has raised one error and has
\* returned no result dict; the endpoint answers it with a document of the
\* error alone (status 500 and the message of the error, or 400 for a
\* request it refused), and a document with response, tokens and cost is
\* only made of a result
C15_FailureWithoutPartialResult ==
    req.op = "call"
        => /\ pc = "failed" => error # ""
           /\ error # "" => (result = NoResult /\ pc \in {"failed", "replied"})
           /\ yielded = <<>> /\ events = <<>>
           /\ (pc = "replied" /\ error # "")
                => reply = [status |-> 500, error |-> error]
           /\ reply.status \notin {0, 200} => DOMAIN reply = {"status", "error"}
           /\ reply.status = 200
                => (result.set /\ error = "" /\ reply.response = result.response)

\* the endpoint has answered a call the provider refused with status 429
C15_Witness ==
    /\ req.via = "http"
    /\ req.op = "call"
    /\ server.status = 429
    /\ pc = "replied"
    /\ Len(http) = 1
    /\ reply = [status |-> 500, error |-> "Exception: API error"]

(***************************************************************************)
(* Two requests of the chat endpoint handled concurrently.  The variables  *)
(* req ... self are those of the request that runs; other holds those of   *)
(* the request that waits, and the server switches between the two at any  *)
(* step.  clients (the APIClient objects) and MODEL_CONFIGS are all that   *)
(* the two handlers can both reach.                                        *)
(***************************************************************************)
Switch ==
    /\ other.live
    /\ other' = [live |-> TRUE, req |-> req, server |-> server, pc |-> pc,
                 adapters |-> adapters, http |-> http, wire |-> wire,
                 buffer |-> buffer, yielded |-> yielded, result |-> result,
                 error |-> error, events |-> events, reply |-> reply,
                 session |-> session, loop |-> loop, consumer |-> consumer,
                 self |-> self]
    /\ req' = other.req
    /\ server' = other.server
    /\ pc' = other.pc
    /\ adapters' = other.adapters
    /\ http' = other.http
    /\ wire' = other.wire
    /\ buffer' = other.buffer
    /\ yielded' = other.yielded
    /\ result' = other.result
    /\ error' = other.error
    /\ events' = other.events
    /\ reply' = other.reply
    /\ session' = other.session
    /\ loop' = other.loop
    /\ consumer' = other.consumer
    /\ self' = other.self
    /\ UNCHANGED clients

\* the requests of one user, who holds the key k
PairRequests(k) ==
    {[via |-> "http", op |-> o, provider |-> p, model |-> KnownModel(p),
      messages |-> UserHi, temperature |-> 7, max_tokens |-> Unset,
      api_keys |-> (p :> k)] :
        o \in {"call", "stream"}, p \in {"openai", "groq"}}

\* what the provider answers the user who holds the key k
PairServer(provider, k) ==
    LET text == IF k = "k1" THEN <<"x">> ELSE <<"y">>
    IN  [status |-> 200, body |-> DocOf("openai", <<text>>),
         stream |-> <<OpenAIContent(text), OpenAIDone>>]

InitPair ==
    /\ req \in PairRequests("k1")
    /\ server = PairServer(req.provider, "k1")
    /\ pc = "received"
    /\ adapters = <<>>
    /\ http = <<>>
    /\ wire = <<>>
    /\ buffer = <<>>
    /\ yielded = <<>>
    /\ result = NoResult
    /\ error = ""
    /\ events = <<>>
    /\ reply = NoReply
    /\ session = "none"
    /\ loop = "none"
    /\ consumer = "none"
    /\ clients = <<>>
    /\ self = 0
    /\ \E r \in PairRequests("k2") :
        other = [live |-> TRUE, req |-> r, server |-> PairServer(r.provider, "k2"),
                 pc |-> "received", adapters |-> <<>>, http |-> <<>>,
                 wire |-> <<>>, buffer |-> <<>>, yielded |-> <<>>,
                 result |-> NoResult, error |-> "", events |-> <<>>,
                 reply |-> NoReply, session |-> "none", loop |-> "none",
                 consumer |-> "none", self |-> 0]

NextPair ==
    \/ Switch
    \/ ChatValidate
    \/ CallStart
    \/ CallFinish
    \/ StreamStart
    \/ StreamOpen
    \/ SSELine
    \/ StreamEnd
    \/ ChatReply
    \/ HttpContent
    \/ HttpMetadata
    \/ HttpDone
    \/ HttpNext

SpecPair == InitPair /\ [][NextPair]_vars

\* what the request that runs yields and returns when it runs alone: the
\* text of the answer its provider gives it
AloneText == IF req.api_keys[req.provider] = "k1" THEN <<"x">> ELSE <<"y">>

\* the request that runs has sent its own credentials only, has the
\* fragments and the result it has when alone, and its answer is made of
\* them
AsWhenAlone ==
    /\ \A i \in 1..Len(http) :
            /\ http[i].api_key = req.api_keys[req.provider]
            /\ http[i].provider = req.provider
    /\ self > 0 => clients[self] = req.api_keys
    /\ error = ""
    /\ \A i \in 1..Len(yielded) : yielded[i] = AloneText
    /\ Len(yielded) <= 1
    /\ (pc = "done" /\ req.op = "stream") => Len(yielded) = 1
    /\ result.set
        => /\ result.response = AloneText
           /\ result.input_tokens = 1000
           /\ result.output_tokens = 2000
    /\ reply.status = 200 /\ req.op = "call" => reply.response = AloneText
    /\ \A i \in 1..Len(events) :
            events[i].type = "content" => events[i].content = AloneText

\* a step of one request leaves the other request as it is
OtherUntouched ==
    other' = other \/ (other'.req = req /\ req' = other.req)

SentMaxTokens(post) ==
    CASE post.provider = "openai" -> post.payload.max_completion_tokens
      [] post.provider = "google" -> post.payload.generationConfig.maxOutputTokens
      [] OTHER -> post.payload.max_tokens

\* max_output of the table's entry of the provider's model
TableMaxOutput(provider) ==
    CASE provider = "openai" -> 16384
      [] provider = "xai" -> 32768
      [] OTHER -> 8192

\* C17: every payload an adapter posts carries the request's max_tokens
\* when it is given, and when it is unset the table's max_output of
\* (provider, model), or 4096 when the model is not in the table; for an
\* unknown provider the lookup gives 4096
C17_MaxTokensResolved ==
    /\ \A i \in 1..Len(http) :
            SentMaxTokens(http[i]) =
                IF req.max_tokens # Unset THEN req.max_tokens
                ELSE IF req.model = KnownModel(req.provider)
                THEN TableMaxOutput(req.provider)
                ELSE 4096
    /\ req.provider \notin SixProviders
            => get_model_max_tokens(req.provider, req.model) = 4096

\* a call of xai with max_tokens unset has posted the max_output of the
\* table's entry of its model
C17_Witness ==
    /\ req.op = "call"
    /\ req.provider = "xai"
    /\ req.model = GROK3
    /\ req.max_tokens = Unset
    /\ Len(http) = 1
    /\ http[1].payload.max_tokens = 32768

\* the text fields under candidates[0].content.parts[*].text of the objects
\* of a parsed array, in order
RECURSIVE ItemsTexts(_)
ItemsTexts(items) ==
    IF items = <<>> THEN <<>>
    ELSE ObjectTexts(Head(items)).out \o ItemsTexts(Tail(items))

\* the text fields of a well-formed body, read with a JSON parser
BodyTexts(body) == ItemsTexts(JsonLoads(body).val.items)

\* C18: when the stream of a well-formed Google body has ended, the
\* fragments yielded are, in order, the text fields of every top-level
\* object of the array, whatever characters the texts contain
C18_AllTextsYielded ==
    (pc = "done" /\ req.provider = "google" /\ JsonLoads(server.stream).ok)
        => yielded = BodyTexts(server.stream)

EndsWith(s, t) == Len(s) >= Len(t) /\ SubSeq(s, Len(s) - Len(t) + 1, Len(s)) = t

\* the chunk a step of stream_google has taken off the wire
ChunkTaken == SubSeq(wire, 1, Len(wire) - Len(wire'))

\* a step of stream_google whose parse loop ends without a parsed object
\* leaves what is not yet parsed in the buffer: a candidate that is not
\* JSON is still in it, and when no complete object is found the buffer is
\* the end of what was received
UnparsedKept ==
    (pc = "streaming" /\ req.provider = "google" /\ Len(wire') < Len(wire))
        => LET r == ParseLoop(buffer \o ChunkTaken, <<>>)
           IN  /\ r.badjson => Contains(buffer', r.cut)
               /\ (~r.badjson /\ ~r.raised /\ ~StartsWith(Strip(r.buffer), <<RB>>))
                    => EndsWith(buffer \o ChunkTaken, buffer')

\* C19: in stream_google, when the parse loop ends without a parsed object,
\* the malformed or incomplete fragment is left in the buffer
C19_UnparsedKeptInBuffer == [][UnparsedKept]_vars

(***************************************************************************)
(* stream_openai and stream_anthropic on event streams that hold an event  *)
(* which cannot be interpreted, between two events that can.               *)
(***************************************************************************)
\* data payloads: {"choices": (not JSON), {"choices":[]}, [], "x", {}
OddPayloads ==
    {<<LC, Key("choices")>>,
     Obj(<<Member("choices", Arr(<<>>))>>),
     Arr(<<>>),
     Quoted(<<"x">>),
     Obj(<<>>)}

EventTexts == {<<"x">>, <<"y", SP>>}

ContentLine(provider, text) ==
    IF provider = "openai" THEN OpenAIContent(text) ELSE AnthropicTextDelta(text)

EventStreams(provider) ==
    {<<ContentLine(provider, a), DataLine(odd), ContentLine(provider, b)>>
        \o (IF provider = "openai" THEN <<OpenAIDone>> ELSE <<>>) :
        a \in EventTexts, b \in EventTexts, odd \in OddPayloads}

InitEvents ==
    /\ \E p \in {"openai", "anthropic"} :
        /\ req = [via |-> "client", op |-> "stream", provider |-> p,
                  model |-> KnownModel(p), messages |-> UserHi, temperature |-> 7,
                  max_tokens |-> Unset, api_keys |-> (p :> "k")]
        /\ \E lines \in EventStreams(p) :
            server = [status |-> 200, body |-> <<>>, stream |-> lines]
    /\ pc = "start"
    /\ adapters = <<>>
    /\ http = <<>>
    /\ wire = <<>>
    /\ buffer = <<>>
    /\ yielded = <<>>
    /\ result = NoResult
    /\ error = ""
    /\ events = <<>>
    /\ reply = NoReply
    /\ session = "none"
    /\ loop = "none"
    /\ consumer = "none"
    /\ clients = <<req.api_keys>>
    /\ self = 1
    /\ other = NoOther

NextEvents ==
    \/ StreamStart
    \/ StreamOpen
    \/ SSELine
    \/ StreamEnd

SpecEvents == InitEvents /\ [][NextEvents]_vars

\* the texts of the content events among the lines, in order
RECURSIVE ContentTexts(_, _)
ContentTexts(provider, lines) ==
    IF lines = <<>> THEN <<>>
    ELSE (IF \E t \in EventTexts : Head(lines) = ContentLine(provider, t)
          THEN <<CHOOSE t \in EventTexts : Head(lines) = ContentLine(provider, t)>>
          ELSE <<>>)
         \o ContentTexts(provider, Tail(lines))

\* C20: an event of the stream of openai or anthropic that cannot be
\* interpreted is skipped: the stream does not fail, and when it has ended
\* it has yielded the text of every content event, those after that event
\* too
C20_OddEventSkipped ==
    /\ pc # "failed"
    /\ pc = "done" => yielded = ContentTexts(req.provider, server.stream)

\* the delta content value of a line: the string under
\* choices[0].delta.content of the JSON object after the 'data: ' prefix,
\* <<>> (no value) when the line has no such prefix, no such object or no
\* such field, or when the value is empty
DeltaContent(line) ==
    IF ~StartsWith(line, SSEPrefix) THEN <<>>
    ELSE LET doc == JsonLoads(Drop(line, Len(SSEPrefix)))
         IN  IF ~doc.ok THEN <<>>
             ELSE LET content == Path(doc.val, <<"choices", "#0", "delta", "content">>)
                  IN  IF content.ok /\ content.val.t = "str" /\ content.val.s # <<>>
                      THEN <<content.val.s>>
                      ELSE <<>>

\* the non-empty delta content values of the lines that precede the first
\* 'data: [DONE]' line
RECURSIVE DeltaContents(_)
DeltaContents(lines) ==
    IF lines = <<>> THEN <<>>
    ELSE IF Strip(Head(lines)) = SSEPrefix \o DoneMark THEN <<>>
    ELSE DeltaContent(Strip(Head(lines))) \o DeltaContents(Tail(lines))

\* C21: when stream_openai is through with the lines it received, whether
\* it returned or raised, the fragments it yielded are, in order, the
\* non-empty delta content values of the 'data: ' lines before the first
\* 'data: [DONE]' line
C21_OpenAIYieldsDeltaContents ==
    (req.provider = "openai" /\ req.op = "stream" /\ pc \in {"done", "failed"})
        => yielded = DeltaContents(server.stream)

\* the usage member of the provider's document and its two counts, under
\* the names the provider gives them
UsageNames(provider) ==
    CASE provider = "anthropic" -> <<"usage", "input_tokens", "output_tokens">>
      [] provider = "google" ->
            <<"usageMetadata", "promptTokenCount", "candidatesTokenCount">>
      [] OTHER -> <<"usage", "prompt_tokens", "completion_tokens">>

\* the count the document gives under usage, 0 when it gives none
CountOrZero(doc, usage, count) ==
    IF doc.t = "obj" /\ HasKey(doc, usage)
       /\ HasKey(DictGet(doc, usage, doc), count)
    THEN DictGet(DictGet(doc, usage, doc), count, doc).n
    ELSE 0

\* the answer is a success as to status and text, and leaves out the usage
\* member, one of its counts, or the model
LeavesOutAccounting ==
    LET doc == JsonLoads(server.body)
        names == UsageNames(req.provider)
    IN  /\ server.status = 200
        /\ doc.ok
        /\ server.body \in DocsFor(req.provider)
        /\ \/ ~HasKey(doc.val, names[1])
           \/ ~HasKey(DictGet(doc.val, names[1], doc.val), names[2])
           \/ ~HasKey(DictGet(doc.val, names[1], doc.val), names[3])
           \/ ~HasKey(doc.val, "model")

\* the adapter has read the provider's answer
AnswerRead ==
    /\ req.provider \in SixProviders
    /\ UsesCall
    /\ Len(http) = 1
    /\ pc # "awaiting"
    /\ error # "ClientError"

\* C22: a call whose provider answers 200 and leaves out the usage member,
\* one of its counts or the model does not fail: the count left out is 0
\* in the result, the model left out is the requested one
C22_MissingAccountingDefaults ==
    (AnswerRead /\ LeavesOutAccounting)
        => LET doc == JsonLoads(server.body).val
               names == UsageNames(req.provider)
           IN  /\ pc # "failed"
               /\ result.set
               /\ result.input_tokens = CountOrZero(doc, names[1], names[2])
               /\ result.output_tokens = CountOrZero(doc, names[1], names[3])
               /\ ~HasKey(doc, "model") => result.model = req.model

\* the system messages of the conversation, in order
SystemsOf(messages) == SelectSeq(messages, LAMBDA m : m.role = "system")

\* what the payload carries in the field of the system message, "" when it
\* has no such field: 'system' for Anthropic, the text of the part of
\* 'systemInstruction' for Google
SentSystem(post) ==
    IF post.provider = "anthropic"
    THEN IF "system" \in DOMAIN post.payload THEN post.payload.system ELSE ""
    ELSE IF "systemInstruction" \in DOMAIN post.payload
         THEN post.payload.systemInstruction.parts[1].text
         ELSE ""

\* C23: when the conversation has several system messages, the payload
\* posted to Anthropic or Google carries in its system field the content of
\* the first of them
C23_FirstSystemMessageWins ==
    \A i \in 1..Len(http) :
        (http[i].provider \in {"anthropic", "google"}
            /\ Len(SystemsOf(req.messages)) >= 2)
            => SentSystem(http[i]) = SystemsOf(req.messages)[1].content

====
